---- MODULE Spec2Model ----
(***************************************************************************)
(* TemperatureSystemsControllerNode                                        *)
(* (temperature_control_systems/src/temperature_systems_controller.cpp).   *)
(*                                                                         *)
(* One node holds a 16-bit temperature and registers five callbacks: a     *)
(* timer that publishes the temperature, a query service, a step service   *)
(* (increment/decrement, refused when rand() % 2 is 0) and the three       *)
(* callbacks of the set-temperature action server (goal, cancel,           *)
(* accepted).  The accepted callback runs the task loop: it calls the      *)
(* step service of its own node and waits for the answer (future.get()).   *)
(*                                                                         *)
(* Every callback is one atomic action.  The accepted callback is cut at   *)
(* the places where it hands control to the middleware: its entry, the     *)
(* head of the while loop, and the wait on the future.  Specification      *)
(* Spec lets the host run any callback while the task loop waits on its    *)
(* future (the cooperative execution context of the design); no two        *)
(* callbacks ever overlap, so there are no unsynchronised accesses.        *)
(*                                                                         *)
(* The variable event holds the message the last callback produced         *)
(* (service response, goal response, feedback, result, published sample).  *)
(* startup_temperature, last_written, last_step_value, step_count,         *)
(* feedback_count and active_tasks are history variables: they record      *)
(* what happened and no callback reads them (startup_temperature only      *)
(* places the window of the exploration, see Origin).                      *)
(*                                                                         *)
(* The variable executor is the execution context of the host.  Under      *)
(* "single", the rclcpp::spin of main, one thread runs one callback at a   *)
(* time to its return, the accepted callback included (the action server   *)
(* calls it on the executor thread): nothing else is dispatched while it   *)
(* runs or waits.  Under "cooperative" the waiting task loop lets the      *)
(* other callbacks run.                                                    *)
(*                                                                         *)
(* Specifications: Spec, every callback of every client; SpecSolo, the     *)
(* task is the only caller of the step service while it is active;         *)
(* SpecStartup, the constructor over every residue of rand() % 85;         *)
(* SpecEdge, Spec begun with the Value at the upper end of short (all      *)
(* four on the cooperative context); SpecProgress, Spec with tasks also    *)
(* begun in the middle of wider spans; SpecHost, Spec on either context;   *)
(* SpecFair, the undisturbed task on either context with the fairness of   *)
(* the executor and of rand().                                             *)
(***************************************************************************)
EXTENDS Integers, FiniteSets, Sequences, TLC

VARIABLES
    current_temperature,    \* short current_temperature (line 18)
    action_server_busy,     \* bool action_server_busy (line 30)
    executor,               \* execution context that spins the node (200)
    pc,                     \* position of the accepted callback
    goal,                   \* goal->temperature of the accepted goal
    canceling,              \* goalHandle->is_canceling()
    target_temperature,     \* locals of the accepted callback (154-157)
    initial_temperature,
    _current_temperature,
    is_increment,
    request,                \* step request of the task, not yet served
    future,                 \* step response of the task, not yet read
    feedback,               \* the Feedback object of the task (151)
    event,                  \* message produced by the last callback
    startup_temperature,    \* history: the value the constructor chose
    last_written,           \* history: value written by the last successful step
    last_step_value,        \* history: value returned by the task's last step
    step_count,             \* history: step requests the task has sent
    feedback_count,         \* history: feedback messages the task has published
    active_tasks            \* history: goals accepted and not yet finished

vars == <<current_temperature, action_server_busy, pc, goal, canceling,
          target_temperature, initial_temperature, _current_temperature,
          is_increment, request, future, feedback, event,
          startup_temperature, last_written, last_step_value,
          step_count, feedback_count, active_tasks, executor>>

ctrl == <<current_temperature, action_server_busy>>
task == <<pc, goal, canceling, target_temperature, initial_temperature,
          _current_temperature, is_increment, request, future, feedback,
          last_step_value, step_count, feedback_count, active_tasks>>
hist == <<startup_temperature, last_written, executor>>

-----------------------------------------------------------------------------
(* Bounds of the exploration *)

\* rand() values drawn by the constructor: 0..MaxInitRand
MaxInitRand == 0
\* rand() values drawn by the constructor in SpecStartup: 0..MaxStartupRand
MaxStartupRand == 169
\* rand() values drawn by one step request: 0..MaxStepRand
MaxStepRand == 1
\* a step succeeds only while the Value stays this close to the startup Value
MaxDrift == 1
\* goals ask for targets this close to the startup Value
MaxTargetDelta == 1
\* the history counters saturate here
MaxCount == 1
\* SpecProgress: targets and Values this far from the snapshot of the task
MaxSpan == 3

InitRandValues == 0..MaxInitRand
StartupRandValues == 0..MaxStartupRand
StepRandValues == 0..MaxStepRand

-----------------------------------------------------------------------------
(* Arithmetic *)

\* short current_temperature: the 16-bit signed type
MaxShort == 32767
MinShort == -32768

\* conversion of an int to short
Wrap16(x) == ((x - MinShort) % (MaxShort - MinShort + 1)) + MinShort

Abs(x) == IF x < 0 THEN -x ELSE x

\* C++ integer division: the quotient is truncated toward zero
\* the quotient rounded down instead
TruncDiv_Floor(a, b) == a \div b

TruncDiv(a, b) ==
    IF (a >= 0) = (b > 0) THEN Abs(a) \div Abs(b) ELSE -(Abs(a) \div Abs(b))

Saturate(n) == IF n < MaxCount THEN n + 1 ELSE MaxCount

-----------------------------------------------------------------------------
(* Constructor, line 40 *)

\* current_temperature = rand() % 85 + 15
InitialTemperature(r) == Wrap16((r % 85) + 15)

NoRequest == [pending |-> FALSE]
NoFuture == [ready |-> FALSE]
NewFeedback == [temperature |-> 0, progress |-> 0]

ConstructedOn(rands, hosts) ==
    /\ \E r \in rands : current_temperature = InitialTemperature(r)
    /\ executor \in hosts
    /\ action_server_busy = FALSE
    /\ pc = "idle"
    /\ goal = 0
    /\ canceling = FALSE
    /\ target_temperature = 0
    /\ initial_temperature = 0
    /\ _current_temperature = 0
    /\ is_increment = FALSE
    /\ request = NoRequest
    /\ future = NoFuture
    /\ feedback = NewFeedback
    /\ event = [op |-> "constructed"]
    /\ startup_temperature = current_temperature
    /\ last_written = current_temperature
    /\ last_step_value = 0
    /\ step_count = 0
    /\ feedback_count = 0
    /\ active_tasks = 0

Constructed(rands) == ConstructedOn(rands, {"cooperative"})

Init == Constructed(InitRandValues)

\* main, line 200: rclcpp::spin dispatches a callback only when the one
\* before it has returned; the cooperative context also while the accepted
\* callback is in progress
Dispatchable == executor = "cooperative" \/ pc = "idle"

-----------------------------------------------------------------------------
(* temperature_monitor_callback, lines 83-90 *)

temperature_monitor_callback ==
    /\ Dispatchable
    /\ event' = [op |-> "publish", data |-> current_temperature]
    /\ UNCHANGED <<ctrl, task, hist>>

-----------------------------------------------------------------------------
(* get_current_temperature_callback, lines 93-99 *)

\* a copy taken at construction answered instead of the member
QueryTemperature_Startup == startup_temperature

QueryTemperature == current_temperature

get_current_temperature_callback ==
    /\ Dispatchable
    /\ event' = [op |-> "get_current_temperature",
                 temperature |-> QueryTemperature]
    /\ UNCHANGED <<ctrl, task, hist>>

-----------------------------------------------------------------------------
(* increment_decrement_temperature_callback, lines 102-124 *)

\* line 110: bool can_increase_temperature = rand() % 2
CanIncreaseTemperature(r) == (r % 2) # 0

\* line 120: is_increment ? 1 : -1
StepDelta(increment) == IF increment THEN 1 ELSE -1

\* line 120: current_temperature += ...
SteppedTemperature(cur, increment) == Wrap16(cur + StepDelta(increment))

\* line 113: the refused request leaves the temperature alone
\* the early return missing: the refused request steps all the same
RefusedTemperature_Stepped(cur, increment) ==
    cur + (IF increment THEN 1 ELSE -1)

RefusedTemperature(cur, increment) == cur

StepMessage(increment, can) ==
    IF can
    THEN "Temperature " \o (IF increment THEN "increased" ELSE "decreased")
                        \o " successfully"
    ELSE "Temperature cannot be "
             \o (IF increment THEN "increased" ELSE "decreased")

StepTemperature(cur, increment, can) ==
    IF can THEN SteppedTemperature(cur, increment)
           ELSE RefusedTemperature(cur, increment)

StepResponse(cur, increment, can) ==
    [success |-> can,
     temperature |-> StepTemperature(cur, increment, can),
     message |-> StepMessage(increment, can)]

\* the exploration keeps the Value within MaxDrift of where it began, the
\* startup Value or the upper end of short: beyond it only refusals are drawn
Origin ==
    IF Abs(current_temperature - startup_temperature) <= MaxDrift
    THEN startup_temperature
    ELSE MaxShort

WithinDrift(v) == Abs(Wrap16(v - Origin)) <= MaxDrift

increment_decrement_temperature_callback(increment, r, caller) ==
    LET can == CanIncreaseTemperature(r)
        response == StepResponse(current_temperature, increment, can)
    IN  /\ Dispatchable
        /\ can => WithinDrift(response.temperature)
        /\ current_temperature' = response.temperature
        /\ last_written' = IF can THEN response.temperature ELSE last_written
        /\ event' = [op |-> "increment_decrement", caller |-> caller,
                     increment |-> increment, response |-> response]
        /\ UNCHANGED <<action_server_busy, startup_temperature, executor>>

\* a request of some other client of the service
ClientStep ==
    \E increment \in BOOLEAN, r \in StepRandValues :
        /\ increment_decrement_temperature_callback(increment, r, "client")
        /\ UNCHANGED task

\* the request the task loop sent (lines 171-177)
TaskStep ==
    /\ request.pending
    /\ \E r \in StepRandValues :
        /\ increment_decrement_temperature_callback(request.increment, r, "task")
        /\ future' = [ready |-> TRUE,
                      response |-> StepResponse(current_temperature,
                                       request.increment,
                                       CanIncreaseTemperature(r))]
    /\ request' = NoRequest
    /\ last_step_value' = future'.response.temperature
    /\ UNCHANGED <<pc, goal, canceling, target_temperature,
                   initial_temperature, _current_temperature, is_increment,
                   feedback, step_count, feedback_count, active_tasks>>

-----------------------------------------------------------------------------
(* handle_set_temperature_action_callback, lines 127-136 *)

\* the gate forgotten: every goal is accepted
GoalResponse_AlwaysAccept(busy) == "ACCEPT_AND_EXECUTE"

GoalResponse(busy) == IF busy THEN "REJECT" ELSE "ACCEPT_AND_EXECUTE"

\* targets the clients ask for
Targets ==
    { Wrap16(Origin + d) : d \in (-MaxTargetDelta)..MaxTargetDelta }

handle_set_temperature_action_callback ==
    \E temperature \in Targets :
        LET response == GoalResponse(action_server_busy)
        IN  /\ Dispatchable
            /\ event' = [op |-> "goal_response", response |-> response]
            /\ IF response = "REJECT"
               THEN UNCHANGED <<ctrl, task, hist>>
               ELSE /\ action_server_busy' = TRUE
                    \* the middleware creates the goal handle and schedules
                    \* the accepted callback
                    /\ goal' = temperature
                    /\ canceling' = FALSE
                    /\ pc' = "accepted"
                    /\ active_tasks' = Saturate(active_tasks)
                    /\ UNCHANGED <<current_temperature, hist,
                                   target_temperature, initial_temperature,
                                   _current_temperature, is_increment,
                                   request, future, feedback,
                                   last_step_value, step_count,
                                   feedback_count>>

-----------------------------------------------------------------------------
(* cancel_set_temperature_action_callback, lines 139-144 *)

CancelResponse == "ACCEPT"

\* called for the goal handle of a goal that has not finished; on ACCEPT the
\* middleware marks the handle as canceling
cancel_set_temperature_action_callback ==
    /\ Dispatchable
    /\ pc # "idle"
    /\ event' = [op |-> "cancel_response", response |-> CancelResponse]
    /\ canceling' = (canceling \/ CancelResponse = "ACCEPT")
    /\ UNCHANGED <<ctrl, hist, pc, goal, target_temperature,
                   initial_temperature, _current_temperature, is_increment,
                   request, future, feedback, last_step_value, step_count,
                   feedback_count, active_tasks>>

-----------------------------------------------------------------------------
(* accepted_set_temperature_action_callback, lines 147-194 *)

\* line 157: is_increment = target_temperature > current_temperature
\* the comparison turned round
IsIncrement_Flipped(target, cur) == target < cur

IsIncrement(target, cur) == target > cur

\* line 159: while (_current_temperature != target_temperature)
\* the loop written with <= : it runs on when the target is already met
LoopContinues_Le(cur, target) == cur <= target

\* the loop written with < : it ends as soon as the value is not below
LoopContinues_Lt(cur, target) == cur < target

LoopContinues(cur, target) == cur # target

\* line 161: goalHandle->is_canceling()
\* the test left out
IsCanceling_Never == FALSE

IsCanceling == canceling

\* lines 159-161: the cancel test is inside the loop, after the loop test
\* the cancel test made before the loop test
CancelTaken_BeforeLoopTest == IsCanceling

CancelTaken ==
    LoopContinues(_current_temperature, target_temperature) /\ IsCanceling

\* lines 163 and 190: result->temperature = _current_temperature
\* the member read where the local was meant
CanceledTemperature_Member == current_temperature

CanceledTemperature == _current_temperature
SucceededTemperature == _current_temperature

\* lines 166 and 193: action_server_busy = false
\* the cancel path returns without clearing the flag
BusyAfterCanceled_Kept == TRUE

BusyAfterCanceled == FALSE
BusyAfterSucceeded == FALSE

\* line 181: _current_temperature = response->temperature
ObservedTemperature(response) == response.temperature

\* lines 183-184.  A zero divisor is an integer division by zero: the
\* build may trap or deliver any value.
ProgressOutcomes(cur, initial, target) ==
    IF target = initial
    THEN {"SIGFPE", -1, 0, 100}
    ELSE { TruncDiv((cur - initial) * 100, target - initial) }

\* lines 167 and 194: the callback returns; its locals and the goal handle
\* are gone
Return ==
    /\ pc' = "idle"
    /\ goal' = 0
    /\ canceling' = FALSE
    /\ target_temperature' = 0
    /\ initial_temperature' = 0
    /\ _current_temperature' = 0
    /\ is_increment' = FALSE
    /\ feedback' = NewFeedback
    /\ last_step_value' = 0
    /\ active_tasks' = IF active_tasks > 0 THEN active_tasks - 1 ELSE 0

\* lines 150-157: the locals of the callback
AcceptedEntry ==
    /\ pc = "accepted"
    /\ feedback' = NewFeedback
    /\ target_temperature' = goal
    /\ initial_temperature' = current_temperature
    /\ _current_temperature' = current_temperature
    /\ is_increment' = IsIncrement(goal, current_temperature)
    /\ pc' = "loop"
    /\ last_step_value' = current_temperature
    /\ step_count' = 0
    /\ feedback_count' = 0
    /\ event' = [op |-> "executing"]
    /\ UNCHANGED <<ctrl, hist, goal, canceling, request, future,
                   active_tasks>>

\* lines 159-177 and 189-193: the loop test, the cancel test, the step
\* request; or the result after the loop
AcceptedLoop ==
    /\ pc = "loop"
    /\ IF LoopContinues(_current_temperature, target_temperature)
              \/ CancelTaken
       THEN IF CancelTaken
            THEN /\ event' = [op |-> "canceled", goal |-> goal,
                              result |-> [temperature |-> CanceledTemperature]]
                 /\ action_server_busy' = BusyAfterCanceled
                 /\ Return
                 /\ UNCHANGED <<request, step_count>>
            ELSE /\ request' = [pending |-> TRUE, increment |-> is_increment]
                 /\ step_count' = Saturate(step_count)
                 /\ event' = [op |-> "step_request",
                              increment |-> is_increment]
                 /\ pc' = "wait"
                 /\ UNCHANGED <<action_server_busy, goal, canceling,
                                target_temperature, initial_temperature,
                                _current_temperature, is_increment, feedback,
                                last_step_value, active_tasks>>
       ELSE /\ event' = [op |-> "succeeded", goal |-> goal,
                         result |-> [temperature |-> SucceededTemperature]]
            /\ action_server_busy' = BusyAfterSucceeded
            /\ Return
            /\ UNCHANGED <<request, step_count>>
    /\ UNCHANGED <<current_temperature, hist, future, feedback_count>>

\* lines 179-186: the response arrives, the feedback is published
AcceptedResume ==
    /\ pc = "wait"
    /\ future.ready
    /\ _current_temperature' = ObservedTemperature(future.response)
    /\ \E progress \in ProgressOutcomes(_current_temperature',
                                        initial_temperature,
                                        target_temperature) :
           feedback' = [temperature |-> _current_temperature',
                        progress |-> progress]
    /\ event' = [op |-> "feedback", feedback |-> feedback']
    /\ feedback_count' = Saturate(feedback_count)
    /\ future' = NoFuture
    /\ pc' = "loop"
    /\ UNCHANGED <<ctrl, hist, goal, canceling, target_temperature,
                   initial_temperature, is_increment, request,
                   last_step_value, step_count, active_tasks>>

-----------------------------------------------------------------------------

Next ==
    \/ temperature_monitor_callback
    \/ get_current_temperature_callback
    \/ ClientStep
    \/ TaskStep
    \/ handle_set_temperature_action_callback
    \/ cancel_set_temperature_action_callback
    \/ AcceptedEntry
    \/ AcceptedLoop
    \/ AcceptedResume

Spec == Init /\ [][Next]_vars

\* The task is the only caller of the step service while it is active:
\* the other clients call it only while no goal is accepted.
SoloClientStep ==
    /\ pc = "idle"
    /\ ClientStep

NextSolo ==
    \/ temperature_monitor_callback
    \/ get_current_temperature_callback
    \/ SoloClientStep
    \/ TaskStep
    \/ handle_set_temperature_action_callback
    \/ cancel_set_temperature_action_callback
    \/ AcceptedEntry
    \/ AcceptedLoop
    \/ AcceptedResume

SpecSolo == Init /\ [][NextSolo]_vars

\* The constructor over every residue of rand() % 85, observed by the
\* query service and the monitor timer.
InitStartup == Constructed(StartupRandValues)

NextStartup ==
    \/ temperature_monitor_callback
    \/ get_current_temperature_callback

SpecStartup == InitStartup /\ [][NextStartup]_vars

\* The controller after the clients of the step service have raised the
\* Value to the upper end of short, one successful increment at a time.
InitEdge ==
    /\ \E r \in InitRandValues : startup_temperature = InitialTemperature(r)
    /\ executor = "cooperative"
    /\ current_temperature = MaxShort
    /\ last_written = MaxShort
    /\ event = [op |-> "increment_decrement", caller |-> "client",
                increment |-> TRUE,
                response |-> StepResponse(MaxShort - 1, TRUE, TRUE)]
    /\ action_server_busy = FALSE
    /\ pc = "idle"
    /\ goal = 0
    /\ canceling = FALSE
    /\ target_temperature = 0
    /\ initial_temperature = 0
    /\ _current_temperature = 0
    /\ is_increment = FALSE
    /\ request = NoRequest
    /\ future = NoFuture
    /\ feedback = NewFeedback
    /\ last_step_value = 0
    /\ step_count = 0
    /\ feedback_count = 0
    /\ active_tasks = 0

SpecEdge == InitEdge /\ [][Next]_vars

\* A task accepted at startup that has sent its first step request, after
\* which the other clients have stepped the Value k times before the request
\* is served: the inputs of the progress computation over a span wider than
\* the window of Spec.
FirstRequestSent(d, k) ==
    /\ \E r \in InitRandValues : startup_temperature = InitialTemperature(r)
    /\ executor = "cooperative"
    /\ current_temperature = startup_temperature + k
    /\ last_written = current_temperature
    /\ action_server_busy = TRUE
    /\ pc = "wait"
    /\ goal = startup_temperature + d
    /\ canceling = FALSE
    /\ target_temperature = goal
    /\ initial_temperature = startup_temperature
    /\ _current_temperature = startup_temperature
    /\ is_increment = IsIncrement(goal, startup_temperature)
    /\ request = [pending |-> TRUE, increment |-> is_increment]
    /\ future = NoFuture
    /\ feedback = NewFeedback
    /\ event = IF k = 0
               THEN [op |-> "step_request", increment |-> is_increment]
               ELSE [op |-> "increment_decrement", caller |-> "client",
                     increment |-> k > 0,
                     response |-> StepResponse(
                         current_temperature - StepDelta(k > 0), k > 0, TRUE)]
    /\ last_step_value = startup_temperature
    /\ step_count = Saturate(0)
    /\ feedback_count = 0
    /\ active_tasks = 1

Spans == (-MaxSpan)..MaxSpan

InitProgress ==
    \/ Init
    \/ \E d \in Spans \ {0}, k \in Spans : FirstRequestSent(d, k)

SpecProgress == InitProgress /\ [][Next]_vars

\* The node on either execution context.
Executors == {"single", "cooperative"}

InitHost == ConstructedOn(InitRandValues, Executors)

SpecHost == InitHost /\ [][Next]_vars

\* The undisturbed task of either context: nobody cancels, the task is the
\* only caller of the step service while it is active.
NextQuiet ==
    \/ temperature_monitor_callback
    \/ get_current_temperature_callback
    \/ SoloClientStep
    \/ TaskStep
    \/ handle_set_temperature_action_callback
    \/ AcceptedEntry
    \/ AcceptedLoop
    \/ AcceptedResume

\* line 110 draws rand() % 2 == 1 for the request of the task
TaskStepSucceeds ==
    /\ TaskStep
    /\ future'.response.success

\* The executor runs a callback that is ready (weak fairness on the pieces
\* of the accepted callback and on the step handler); rand() % 2 does not
\* come out 0 for ever (strong fairness on the successful step).
Fairness ==
    /\ WF_vars(AcceptedEntry)
    /\ WF_vars(AcceptedLoop)
    /\ WF_vars(AcceptedResume)
    /\ WF_vars(TaskStep)
    /\ SF_vars(TaskStepSucceeds)

SpecFair == InitHost /\ [][NextQuiet]_vars /\ Fairness

-----------------------------------------------------------------------------
(* Vocabulary of the properties *)

\* a set-temperature task is Active from its acceptance to its result
Active == pc # "idle"

\* the accepted callback holds its locals
Running == pc \in {"loop", "wait"}

taskstate == <<pc, goal, canceling, target_temperature, initial_temperature,
               _current_temperature, is_increment, request, future, feedback>>

GoalAnswered == event'.op = "goal_response"
Terminated == event'.op \in {"succeeded", "canceled"}
StepAnswered == event'.op = "increment_decrement"
QueryAnswered == event'.op = "get_current_temperature"

-----------------------------------------------------------------------------
(* C1 *)

C1_RejectedWhileActive ==
    (Active /\ GoalAnswered) =>
        /\ event'.response = "REJECT"
        /\ UNCHANGED <<current_temperature, action_server_busy, taskstate,
                       active_tasks>>

\* C1: at most one set-temperature task is Active in every reachable state,
\* and a goal request that arrives while a task is Active is answered REJECT
\* and changes neither the Value, the busy flag nor the running task (nothing
\* is queued).
C1_SingleFlight ==
    /\ [](active_tasks <= 1 /\ (active_tasks = 1 <=> Active))
    /\ [][C1_RejectedWhileActive]_vars

C1_Witness ==
    /\ event.op = "goal_response"
    /\ event.response = "REJECT"
    /\ pc = "wait"
    /\ active_tasks = 1

-----------------------------------------------------------------------------
(* C2 *)

C2_TerminalClearsBusy ==
    Terminated => (~action_server_busy' /\ pc' = "idle")

C2_IdleAccepts ==
    (~Active /\ GoalAnswered) =>
        (event'.response = "ACCEPT_AND_EXECUTE" /\ action_server_busy')

\* C2: the busy flag is true exactly while a task is Active; the Succeeded
\* and the Cancelled transition both clear it and return the controller to
\* Idle, and a goal request that arrives in Idle is accepted.
C2_BusyIffActive ==
    /\ [](action_server_busy <=> Active)
    /\ [][C2_TerminalClearsBusy /\ C2_IdleAccepts]_vars

\* a goal was accepted after an earlier task, which had sent steps, ended
C2_Witness ==
    /\ pc = "accepted"
    /\ action_server_busy
    /\ event.op = "goal_response"
    /\ step_count > 0

-----------------------------------------------------------------------------
(* C3 *)

\* the task whose target is the snapshot taken at its start
Degenerate == Running /\ target_temperature = initial_temperature

C3_DegenerateState ==
    Degenerate =>
        /\ pc = "loop"
        /\ _current_temperature = target_temperature
        /\ ~request.pending
        /\ ~future.ready
        /\ step_count = 0
        /\ feedback_count = 0

\* the next move of the degenerate task is the Succeeded transition
C3_DegenerateMove ==
    (Degenerate /\ ~Degenerate') =>
        /\ event'.op = "succeeded"
        /\ event'.result.temperature = target_temperature
        /\ step_count' = 0
        /\ current_temperature' = current_temperature

-----------------------------------------------------------------------------
(* C4 *)

\* C4: whenever a task ends Succeeded the value of its result equals the
\* target of its goal exactly, and the task takes the Succeeded transition
\* only when the value it last obtained from a step (the snapshot if it made
\* none) equals the target.
C4_SucceededAtTarget ==
    /\ [](event.op = "succeeded" => event.result.temperature = event.goal)
    /\ [][event'.op = "succeeded" =>
             /\ pc = "loop"
             /\ event'.goal = target_temperature
             /\ last_step_value = target_temperature
             /\ event'.result.temperature = last_step_value]_vars

\* a task succeeded after stepping the Value down
C4_Witness ==
    /\ event.op = "succeeded"
    /\ step_count > 0
    /\ feedback_count > 0
    /\ event.goal < startup_temperature

-----------------------------------------------------------------------------
(* C5, under SpecSolo: only the task calls the step service while Active *)

C5_Between ==
    Running =>
        /\ (target_temperature >= initial_temperature =>
               /\ initial_temperature <= current_temperature
               /\ current_temperature <= target_temperature)
        /\ (target_temperature <= initial_temperature =>
               /\ target_temperature <= current_temperature
               /\ current_temperature <= initial_temperature)

C5_Step ==
    Running =>
        /\ (target_temperature > initial_temperature =>
               current_temperature' >= current_temperature)
        /\ (target_temperature < initial_temperature =>
               current_temperature' <= current_temperature)

\* C5: while a task is Active and is the only caller of the step operation,
\* the Value moves monotonically toward the target: for target > initial it
\* never decreases from one state to the next, for target < initial it never
\* increases, and it never passes the target.
C5_MonotoneTowardTarget ==
    /\ [](C5_Between)
    /\ [][C5_Step]_vars

\* a decrementing task has moved the Value and was refused at least once
C5_Witness ==
    /\ pc = "wait"
    /\ target_temperature < initial_temperature
    /\ current_temperature < initial_temperature
    /\ event.op = "increment_decrement"
    /\ ~event.response.success

-----------------------------------------------------------------------------
(* C6 *)

\* the loop head of a task that is being cancelled and is not at its target
CancelObserved ==
    /\ pc = "loop"
    /\ canceling
    /\ LoopContinues(_current_temperature, target_temperature)

C6_Move ==
    CancelObserved =>
        \/ CancelObserved' /\ UNCHANGED <<step_count, feedback_count>>
        \/ /\ event'.op = "canceled"
           /\ event'.result.temperature = last_step_value
           /\ pc' = "idle"
           /\ ~request'.pending
           /\ ~future'.ready
           /\ UNCHANGED <<step_count, feedback_count, current_temperature>>

\* C6: once an Active task observes a cancellation request at an iteration
\* boundary it sends no further step request and publishes no further
\* feedback, it ends Cancelled, and its result carries the value returned by
\* the last step it completed (the snapshot if it completed none).
C6_CancelHalts ==
    /\ [][C6_Move]_vars
    /\ [](event.op = "canceled" =>
             (pc = "idle" /\ ~request.pending /\ ~future.ready))
    /\ [](pc = "idle" => (~request.pending /\ ~future.ready))

\* a task was cancelled after a step of its own and a step of another client
C6_Witness ==
    /\ event.op = "canceled"
    /\ step_count > 0
    /\ feedback_count > 0
    /\ event.result.temperature # current_temperature

-----------------------------------------------------------------------------
(* C7, under SpecEdge *)

C7_Step ==
    (StepAnswered /\ event'.response.success) =>
        /\ current_temperature' =
               current_temperature + (IF event'.increment THEN 1 ELSE -1)
        /\ event'.response.temperature = current_temperature'

\* C7: a step operation that is not refused changes the Value by exactly +1
\* when the direction flag is increment and by exactly -1 when it is
\* decrement, and its response carries success = true and the new Value.
C7_StepByOne == [][C7_Step]_vars

-----------------------------------------------------------------------------
(* C8 *)

C8_Step ==
    (StepAnswered /\ ~event'.response.success) =>
        /\ current_temperature' = current_temperature
        /\ event'.response.temperature = current_temperature
        /\ UNCHANGED <<action_server_busy, pc, goal, canceling,
                       target_temperature, initial_temperature,
                       _current_temperature, is_increment, active_tasks>>

\* C8: a refused step operation leaves the Value unchanged and answers
\* success = false together with the unchanged Value, for either direction;
\* it leaves the busy flag and the position of a running task as they were.
C8_RefusalHarmless == [][C8_Step]_vars

\* the step of a running task was refused
C8_Witness ==
    /\ event.op = "increment_decrement"
    /\ ~event.response.success
    /\ event.caller = "task"
    /\ pc = "wait"
    /\ future.ready
    /\ action_server_busy

-----------------------------------------------------------------------------
(* C9 *)

\* C9: the query operation, in Idle or with a task Active, returns the Value
\* written by the most recent successful step, or the startup Value if no
\* step has succeeded yet, and changes neither the Value nor the busy flag
\* nor the state of a running task.
C9_QueryReadsLastWrite ==
    /\ [](event.op = "get_current_temperature" =>
             event.temperature = last_written)
    /\ [][QueryAnswered =>
             UNCHANGED <<current_temperature, action_server_busy, taskstate,
                         active_tasks>>]_vars

\* a query answered while a task waits, after a step has moved the Value
C9_Witness ==
    /\ event.op = "get_current_temperature"
    /\ pc = "wait"
    /\ event.temperature # startup_temperature

-----------------------------------------------------------------------------
(* C10, under SpecStartup *)

\* C10 as stated: at startup the Value is an integer of 15..100, and every
\* integer of 15..100, 15 and 100 included, is a possible initial Value.
C10_Original ==
    /\ startup_temperature \in 15..100
    /\ \A v \in 15..100 :
           \E r \in StartupRandValues : InitialTemperature(r) = v

-----------------------------------------------------------------------------
(* C11 *)

\* the callback that has just run was a step request that was not refused
StepSucceeded == StepAnswered /\ event'.response.success

C11_OnlyStepWrites ==
    /\ current_temperature' # current_temperature => StepSucceeded
    /\ event'.op \in {"goal_response", "cancel_response", "executing",
                      "step_request", "feedback", "succeeded", "canceled",
                      "publish", "get_current_temperature"}
           => current_temperature' = current_temperature

\* C11: after startup the Value is changed only by a successful step
\* operation: the acceptance and the rejection of a goal, a cancel request,
\* the Cancelled and the Succeeded transition, the publication of a feedback
\* and the periodic publication of the Value all leave it unchanged.
C11_ValueWrittenByStepOnly == [][C11_OnlyStepWrites]_vars

\* a task was cancelled with the Value moved away from its startup value
C11_Witness ==
    /\ event.op = "canceled"
    /\ current_temperature # startup_temperature
    /\ current_temperature = last_written
    /\ ~action_server_busy

-----------------------------------------------------------------------------
(* C12, under SpecHost *)

\* the task loop waits on the future of its step request (line 179)
Waiting == pc = "wait"

\* C12: when the task loop and the step handler run on the single execution
\* context that the spin of main supplies, every step request of the task
\* loop is eventually answered and the loop resumes; an Active task never
\* waits for ever on its own step call.  Stated on states: whenever the task
\* waits on that context, the step handler can be dispatched for its request
\* or the response is there for the loop to resume.
C12_StepAnswered ==
    (executor = "single" /\ Waiting) => ENABLED (TaskStep \/ AcceptedResume)

-----------------------------------------------------------------------------
(* C13 *)

\* a step call of the task is outstanding: sent and not yet read
Outstanding == request.pending \/ future.ready

C13_Move ==
    /\ (Active /\ canceling) =>
           \* no step request is started any more (at most one more, says
           \* the claim: the cancel test and the request are one
           \* uninterrupted stretch of the callback, lines 161-177) ...
           /\ request'.pending => request.pending
           \* ... and with no step outstanding the only move of the task
           \* is its result
           /\ (pc = "loop" /\ pc' # "loop") => pc' = "idle"
    /\ event'.op = "canceled" => (pc = "loop" /\ ~Outstanding /\ canceling)

\* C13: after a cancel request is registered for an Active task the task
\* starts at most one more step operation, and once that step, or the step
\* already in flight, has returned the task leaves Active; a task is never
\* moved to Cancelled while one of its step calls is outstanding.
C13_CooperativeCancel ==
    /\ [][C13_Move]_vars
    /\ []((Active /\ canceling) =>
             ENABLED (AcceptedEntry \/ AcceptedLoop \/ TaskStep
                          \/ AcceptedResume))

\* the step in flight has returned to a task whose cancel is registered
C13_Witness ==
    /\ event.op = "feedback"
    /\ canceling
    /\ pc = "loop"
    /\ step_count > 0

-----------------------------------------------------------------------------
(* C14, under SpecProgress *)

\* q is n / d of C++: the multiple of d next to n on the side of zero
IsTruncatedQuotient(q, n, d) ==
    /\ Abs(q * d) <= Abs(n)
    /\ Abs(n - q * d) < Abs(d)
    /\ (n >= 0 => n - q * d >= 0)
    /\ (n <= 0 => n - q * d <= 0)

\* one iteration: request sent from the loop head, served, feedback
C14_Iteration ==
    /\ event'.op = "step_request" =>
           (pc = "loop" /\ ~Outstanding /\ pc' = "wait" /\ request'.pending)
    /\ (StepAnswered /\ event'.caller = "task") =>
           (pc = "wait" /\ request.pending /\ ~future.ready
                /\ ~request'.pending /\ future'.ready /\ pc' = "wait")
    /\ event'.op = "feedback" =>
           /\ pc = "wait" /\ future.ready /\ ~request.pending
           /\ pc' = "loop" /\ ~Outstanding'
           /\ event'.feedback.temperature = last_step_value
           /\ event'.feedback.temperature = future.response.temperature
           /\ target_temperature # initial_temperature
           /\ IsTruncatedQuotient(
                  event'.feedback.progress,
                  (event'.feedback.temperature - initial_temperature) * 100,
                  target_temperature - initial_temperature)

\* C14: in each iteration of an Active task exactly one step operation is
\* invoked and exactly one feedback is published after it, whether the step
\* succeeded or was refused; the feedback carries the value returned by that
\* step and progress = (value - initial) * 100 / (target - initial), the
\* quotient truncated toward zero, initial being the snapshot of task start.
C14_OneStepOneFeedback ==
    /\ [][C14_Iteration]_vars
    /\ [](pc = "wait" => (request.pending # future.ready))
    /\ [](pc # "wait" => ~Outstanding)

\* the feedback of a refused step, its progress a negative quotient that
\* truncation and rounding down tell apart: -100 / 3
C14_Witness ==
    /\ event.op = "feedback"
    /\ event.feedback.progress = -33
    /\ event.feedback.temperature = current_temperature
    /\ pc = "loop"

-----------------------------------------------------------------------------
(* C15 *)

\* C15: the progress computation never divides by zero: in every reachable
\* state in which a task computes progress (it waits for, or holds, the
\* response of a step) target - initial is not zero, whatever the target,
\* the snapshot and the step requests of other clients in between.
C15_DivisorNotZero ==
    /\ Waiting => target_temperature - initial_temperature # 0
    /\ event.op = "feedback" => target_temperature - initial_temperature # 0

\* a progress computed after other clients stepped the Value back to the
\* snapshot
C15_Witness ==
    /\ event.op = "feedback"
    /\ current_temperature = initial_temperature
    /\ event.feedback.progress # 0
    /\ last_written # event.feedback.temperature

-----------------------------------------------------------------------------
(* C16 *)

Between(a, x, b) == (a <= x /\ x <= b) \/ (b <= x /\ x <= a)

\* C16: in every execution, those included in which other clients invoke the
\* step operation between the iterations of an Active task, every feedback
\* reports a progress within 0..100 and a value between initial and target
\* inclusive; the value the task observes never passes the target.
C16_FeedbackInRange ==
    /\ event.op = "feedback" =>
           /\ event.feedback.progress \in 0..100
           /\ Between(initial_temperature, event.feedback.temperature,
                      target_temperature)
    /\ Running =>
           Between(initial_temperature, _current_temperature,
                   target_temperature)

-----------------------------------------------------------------------------
(* C17, under SpecFair *)

Accepted == pc = "accepted"

SucceededAtTarget ==
    /\ event.op = "succeeded"
    /\ event.result.temperature = event.goal
    /\ current_temperature = event.goal

\* C17: a refused step is retried in the same direction and does not end
\* the task; if the step is not refused for ever, nobody cancels and no
\* other client steps, every accepted task eventually ends Succeeded with
\* the Value equal to the target.
C17_RetriedUntilSucceeded == Accepted ~> SucceededAtTarget

\* the same on the cooperative context alone
C17_CooperativeSucceeds ==
    (executor = "cooperative" /\ Accepted) ~> SucceededAtTarget

\* a refused step of the task: the task stays Active, keeps what it holds
\* and asks again in the same direction
C17_Refused ==
    (pc = "wait" /\ future.ready /\ ~future.response.success /\ pc' # pc)
        => /\ pc' = "loop"
           /\ _current_temperature' = _current_temperature
           /\ is_increment' = is_increment
           /\ LoopContinues(_current_temperature', target_temperature')

C17_RefusedRetried == [][C17_Refused]_vars

-----------------------------------------------------------------------------
(* C18 *)

\* the callback returns from the head of the loop (lines 161-167, 189-194)
C18_Ending ==
    (pc = "loop" /\ pc' = "idle")
        => /\ _current_temperature = target_temperature
                  => event'.op = "succeeded"
           /\ event'.op = "canceled"
                  => event'.result.temperature # target_temperature

\* C18: a task ends Cancelled only with a result different from the target:
\* when the value the task holds equals the target at the head of the loop
\* the task ends Succeeded even with a cancel request pending.
C18_CanceledOffTarget == [][C18_Ending]_vars

\* a cancel request pending on a task that stepped to its target
C18_Witness ==
    /\ pc = "loop"
    /\ canceling
    /\ feedback_count > 0
    /\ _current_temperature = target_temperature
    /\ ENABLED (AcceptedLoop /\ event'.op = "succeeded")

-----------------------------------------------------------------------------
(* C19, under SpecEdge *)

\* the Value passes from one end of short to the other
C19_Wraps ==
    \/ current_temperature = MaxShort /\ current_temperature' = MinShort
    \/ current_temperature = MinShort /\ current_temperature' = MaxShort

\* C19: after any sequence of steps and tasks the Value stays within the
\* range of short without wrapping: a successful increment at 32767 or a
\* successful decrement at -32768 does not produce a Value on the opposite
\* end of the range.
C19_NoWrap == [][~C19_Wraps]_vars

====
